---- MODULE Spec2Model ----
(***************************************************************************)
(* Model of TextToTopics (src/TextToTopics.py): the n-gram pipeline        *)
(* (_lemmatize_content, _handle_period, _handle_punctuation,               *)
(* _get_n_grams) and the two scorers pim_based_topics and pos_based_topics.*)
(*                                                                         *)
(* A Python str is a sequence of one-character strings; a list is a        *)
(* sequence; an optional argument is <<>> (None) or <<k>>.                 *)
(***************************************************************************)
EXTENDS Integers, Sequences, FiniteSets, TLC

VARIABLES
  given,          \* the content the constructor was given
  content,        \* self._content
  calls,          \* the scoring calls made on the instance so far, up to MaxCalls
  op, n, number,  \* the last call and its arguments
  steps,          \* the stages the last call ran, in order
  list_ngrams,    \* the list _get_n_grams built for the last call
  counter,        \* the local counter of the last call
  counter_final,  \* the accumulator of pos_based_topics
  result,         \* what the last call returned or raised
  previous,       \* how the call before the last ended: "none" when there is none
  helper_sentence,  \* the argument of a call of _handle_punctuation or _handle_period
  normalized      \* which of the two was called, and what it returned

vars == <<given, content, calls, op, n, number, steps, list_ngrams, counter,
          counter_final, result, previous, helper_sentence, normalized>>

(***************************************************************************)
(* Bounds of the model.                                                    *)
(***************************************************************************)
\* a content holds at most MaxUnits text units
MaxUnits == 2
\* n ranges over -1 .. MaxN
MaxN == 3
\* number ranges over None and -1 .. MaxNumber
MaxNumber == 3
\* calls counts the calls on the instance up to MaxCalls
MaxCalls == 2
\* the sentences given to _handle_punctuation have at most MaxStripLen characters
MaxStripLen == 3
\* the sentences given to _handle_period have at most MaxPeriodLen characters
MaxPeriodLen == 7

(***************************************************************************)
(* Characters and Python's str primitives.                                 *)
(***************************************************************************)
UpperSeq == <<"A", "B", "C", "D", "E", "F", "G", "H", "I", "J", "K", "L", "M",
              "N", "O", "P", "Q", "R", "S", "T", "U", "V", "W", "X", "Y", "Z">>

LowerSeq == <<"a", "b", "c", "d", "e", "f", "g", "h", "i", "j", "k", "l", "m",
              "n", "o", "p", "q", "r", "s", "t", "u", "v", "w", "x", "y", "z">>

\* [A-Z]
Upper == {UpperSeq[i] : i \in 1..Len(UpperSeq)}

\* the characters str.split() splits on
Whitespace == {" ", "\t", "\n", "\r"}

\* str.lower() on one character
LowerChar(c) ==
  IF c \in Upper
    THEN LowerSeq[CHOOSE i \in 1..Len(UpperSeq) : UpperSeq[i] = c]
    ELSE c

\* str.lower()
Lower(s) == [i \in 1..Len(s) |-> LowerChar(s[i])]

\* the list s[lo:hi] of Python, 0-based, negative indices counted from the end
PySlice(s, lo, hi) ==
  LET len == Len(s)
      Norm(i) == IF i < 0 THEN (IF i + len < 0 THEN 0 ELSE i + len)
                 ELSE (IF i > len THEN len ELSE i)
      a == Norm(lo)
      b == Norm(hi)
  IN  IF a < b THEN SubSeq(s, a + 1, b) ELSE <<>>

\* the sequence f with every element worked out
Listed(f) == SubSeq(f, 1, Len(f))

\* the element of a one-element set
The(S) == CHOOSE x \in S : TRUE

RECURSIVE Flatten(_)
\* the concatenation of a sequence of sequences
Flatten(ss) == IF ss = <<>> THEN <<>> ELSE Head(ss) \o Flatten(Tail(ss))

RECURSIVE Join(_, _)
\* sep.join(words)
Join(words, sep) ==
  IF words = <<>> THEN <<>>
  ELSE IF Len(words) = 1 THEN words[1]
  ELSE words[1] \o sep \o Join(Tail(words), sep)

RECURSIVE SplitFrom(_, _, _, _)
\* scan of s from index i with the piece cur under construction; a character of
\* seps ends the piece. keepEmpty: str.split(sep) keeps empty pieces,
\* str.split() drops them.
SplitFrom(s, i, cur, opt) ==
  IF i > Len(s)
    THEN IF cur = <<>> /\ ~opt.keepEmpty THEN <<>> ELSE <<cur>>
  ELSE IF s[i] \in opt.seps
    THEN (IF cur = <<>> /\ ~opt.keepEmpty THEN <<>> ELSE <<cur>>)
         \o SplitFrom(s, i + 1, <<>>, opt)
  ELSE SplitFrom(s, i + 1, Append(cur, s[i]), opt)

\* s.split(): the maximal runs of non-whitespace
SplitWhitespace(s) == SplitFrom(s, 1, <<>>, [seps |-> Whitespace, keepEmpty |-> FALSE])

\* s.split(sep) for a one-character sep: empty pieces are kept
SplitOn(s, sep) == SplitFrom(s, 1, <<>>, [seps |-> {sep}, keepEmpty |-> TRUE])

\* whether a occurs in s at index i (1-based)
OccursAt(s, a, i) ==
  /\ i + Len(a) - 1 <= Len(s)
  /\ \A k \in 1..Len(a) : s[i + k - 1] = a[k]

RECURSIVE ReplaceFrom(_, _, _, _)
ReplaceFrom(s, a, r, i) ==
  IF i > Len(s) THEN <<>>
  ELSE IF OccursAt(s, a, i) THEN r \o ReplaceFrom(s, a, r, i + Len(a))
  ELSE <<s[i]>> \o ReplaceFrom(s, a, r, i + 1)

\* s.replace(a, r) for a non-empty a: every non-overlapping occurrence, left to right
Replace(s, a, r) == ReplaceFrom(s, a, r, 1)

RECURSIVE RunEnd(_, _, _)
\* the index after the longest run of characters of set starting at i
RunEnd(s, i, set) ==
  IF i <= Len(s) /\ s[i] \in set THEN RunEnd(s, i + 1, set) ELSE i

RECURSIVE SubRuns(_, _, _, _)
SubRuns(s, set, r, i) ==
  IF i > Len(s) THEN <<>>
  ELSE IF s[i] \in set THEN r \o SubRuns(s, set, r, RunEnd(s, i, set))
  ELSE <<s[i]>> \o SubRuns(s, set, r, i + 1)

\* re.sub('[set]+', r, s)
ReSubRuns(s, set, r) == SubRuns(s, set, r, 1)

(***************************************************************************)
(* The linguistic capability (NLTK): nltk.pos_tag on a single token and    *)
(* WordNetLemmatizer.lemmatize, as fixed tables over the model's words.    *)
(* Both are pure functions of their arguments; a token outside the tables  *)
(* tags NN and is its own lemma.                                           *)
(***************************************************************************)
\* nltk.pos_tag([token])[0][1]: the Penn tag of a token tagged on its own
PosTag(token) ==
  CASE token \in {<<"H", "e">>, <<"h", "e">>} -> <<"P", "R", "P">>
    [] token \in {<<"T", "h", "e">>, <<"t", "h", "e">>, <<"a">>, <<"a", "n">>}
         -> <<"D", "T">>
    [] token = <<"h", "a", "s">> -> <<"V", "B", "Z">>
    [] token = <<"s", "a", "w">> -> <<"V", "B", "D">>
    [] token \in {<<"h", "a", "v", "e">>, <<"s", "e", "e">>} -> <<"V", "B">>
    [] token \in {<<"b", "i", "g">>, <<"r", "e", "d">>} -> <<"J", "J">>
    [] OTHER -> <<"N", "N">>

\* WordNetLemmatizer().lemmatize(word, pos)
WordNetLemmatize(word, pos) ==
  CASE word = <<"h", "a", "s">> /\ pos = "v" -> <<"h", "a", "v", "e">>
    [] word = <<"s", "a", "w">> /\ pos = "v" -> <<"s", "e", "e">>
    [] OTHER -> word

(***************************************************************************)
(* The inputs of the model: the text units a content is made of, and the   *)
(* values of n and number a call is made with.                             *)
(***************************************************************************)
\* "He has an M.B.A. degree."
SentenceMba ==
  <<"H", "e", " ", "h", "a", "s", " ", "a", "n", " ", "M", ".", "B", ".", "A", ".",
    " ", "d", "e", "g", "r", "e", "e", ".">>

\* "fox big fox big fox big fox"
SentenceFoxBig ==
  <<"f", "o", "x", " ", "b", "i", "g", " ", "f", "o", "x", " ", "b", "i", "g", " ",
    "f", "o", "x", " ", "b", "i", "g", " ", "f", "o", "x">>

\* "The red dog saw a big fox."
SentenceRedDog ==
  <<"T", "h", "e", " ", "r", "e", "d", " ", "d", "o", "g", " ", "s", "a", "w", " ",
    "a", " ", "b", "i", "g", " ", "f", "o", "x", ".">>

\* the text units a content is made of
Sentences == {SentenceMba, SentenceFoxBig, SentenceRedDog}

NValues == (0 - 1)..MaxN

Numbers == {<<>>} \cup {<<k>> : k \in (0 - 1)..MaxNumber}

(***************************************************************************)
(* The n-gram pipeline.                                                    *)
(***************************************************************************)
\* _get_pos: the WordNet part of speech of a token
get_pos(token) ==
  LET tag == PosTag(token)
  IN  CASE tag[1] = "N" -> "n"
        [] tag[1] = "V" -> "v"
        [] tag[1] = "R" -> "r"
        [] tag[1] = "J" -> "a"
        [] tag[1] = "S" -> "s"
        [] OTHER -> "n"

\* one unit of _lemmatize_content: " ".join of the lemma of every
\* whitespace-delimited token, lowercased, with the part of speech of the
\* token as written
LemmatizeUnit(unit) ==
  LET words == SplitWhitespace(unit)
  IN  Join([i \in 1..Len(words) |->
              WordNetLemmatize(Lower(words[i]), get_pos(words[i]))], <<" ">>)

\* _lemmatize_content
lemmatize_content(total_content) ==
  [u \in 1..Len(total_content) |-> LemmatizeUnit(total_content[u])]

\* whether s holds an uppercase letter followed by a period at index i
AcronymPairAt(s, i) == i + 1 <= Len(s) /\ s[i] \in Upper /\ s[i + 1] = "."

RECURSIVE AcronymEnd(_, _)
\* the index after the longest run of (uppercase letter, period) pairs from i
AcronymEnd(s, i) == IF AcronymPairAt(s, i) THEN AcronymEnd(s, i + 2) ELSE i

RECURSIVE FindAllFrom(_, _)
FindAllFrom(s, i) ==
  IF i > Len(s) THEN <<>>
  ELSE IF AcronymPairAt(s, i)
    THEN <<SubSeq(s, i, AcronymEnd(s, i) - 1)>> \o FindAllFrom(s, AcronymEnd(s, i))
  ELSE FindAllFrom(s, i + 1)

\* re.findall(r'(?:[A-Z]\.)+', sentence)
FindAcronyms(sentence) == FindAllFrom(sentence, 1)

RECURSIVE ReplaceEach(_, _, _)
\* the loop of _handle_period over the matches, from match k on
ReplaceEach(sentence, matches, k) ==
  IF k > Len(matches) THEN sentence
  ELSE ReplaceEach(Replace(sentence, matches[k], Replace(matches[k], <<".">>, <<>>)),
                   matches, k + 1)

\* _handle_period
handle_period(sentence) == ReplaceEach(sentence, FindAcronyms(sentence), 1)

\* the character class of _handle_punctuation's first regex; "+-=" in it is the
\* range from "+" to "="
PunctuationClass ==
  {"!", "@", "#", "$", "%", "*", "(", ")", "_",
   "+", ",", "-", ".", "/", "0", "1", "2", "3", "4", "5", "6", "7", "8", "9",
   ":", ";", "<", "=",
   "[", "]", "{", "}", "|", "\\", "\"", ">"}

\* _handle_punctuation
handle_punctuation(sentence) ==
  ReSubRuns(ReSubRuns(sentence, PunctuationClass, <<" ">>), {" "}, <<" ">>)

\* the tags _get_n_grams keeps
OpenClass == {"N", "V", "R", "J", "S"}

\* the filtered token list of one fragment (lines 158-159)
FragmentTokens(sub) ==
  SelectSeq(SplitWhitespace(handle_punctuation(sub)),
            LAMBDA t : PosTag(t)[1] \in OpenClass)

\* FragmentNGrams with the test of line 160 as m >= n
FragmentNGramsFromEqual(tokens, nn) ==
  IF Len(tokens) >= nn
    THEN [i \in 1..(Len(tokens) - (nn - 1)) |-> PySlice(tokens, i - 1, i - 1 + nn)]
    ELSE <<>>

\* the windows one fragment adds to list_ngrams (lines 160-163)
FragmentNGrams(tokens, nn) ==
  LET m == Len(tokens)
  IN  IF m > nn
        THEN [i \in 1..(Len(tokens) - (nn - 1)) |-> PySlice(tokens, i - 1, i - 1 + nn)]
        ELSE <<>>

\* the fragments of one lemmatized unit (lines 155-156)
UnitFragments(sentence) == SplitOn(handle_period(sentence), ".")

\* UnitNGrams without the split of line 156: one token list for the whole unit
UnitNGramsUnsplit(sentence, nn) ==
  FragmentNGrams(FragmentTokens(handle_period(sentence)), nn)

\* the windows of one lemmatized unit
UnitNGrams(sentence, nn) ==
  LET sentence_list == UnitFragments(sentence)
  IN  Flatten([f \in 1..Len(sentence_list) |->
                 FragmentNGrams(FragmentTokens(sentence_list[f]), nn)])

\* FreshNGrams as a list kept from the call before
KeptNGrams == list_ngrams

\* list_ngrams = [] (line 153)
FreshNGrams == <<>>

\* the windows of every unit of the model, worked out once: they are a pure
\* function of the unit and n
UnitWindows == [s \in Sentences, nn \in NValues |-> UnitNGrams(LemmatizeUnit(s), nn)]

\* _get_n_grams
get_n_grams(total_content, nn) ==
  FreshNGrams
    \o Flatten([u \in 1..Len(total_content) |-> UnitWindows[total_content[u], nn]])

(***************************************************************************)
(* Numbers.  The PMI scorer's floats are positive rationals and their      *)
(* natural logarithms.  A positive rational is the sequence of the         *)
(* exponents of PrimeSeq in its factorisation, so that products and        *)
(* quotients are exact; ln(q) is kept as [lnOf |-> q], and a sum of        *)
(* logarithms is the logarithm of the product.                             *)
(***************************************************************************)
PrimeSeq == <<2, 3, 5, 7, 11, 13, 17, 19, 23, 29, 31, 37, 41, 43, 47>>

\* ln(PrimeSeq[i]) in units of 10^-5
LnPrime == <<69315, 109861, 160944, 194591, 239790, 256495, 283321, 294444,
             313549, 336730, 343399, 361092, 371357, 376120, 385015>>

RECURSIVE Multiplicity(_, _)
\* the exponent of p in the integer x >= 1
Multiplicity(p, x) == IF x % p = 0 THEN 1 + Multiplicity(p, x \div p) ELSE 0

\* the factorisations of the counts of the model, all below 53
Factorisation ==
  [x \in 1..52 |-> [i \in 1..Len(PrimeSeq) |-> Multiplicity(PrimeSeq[i], x)]]

\* the float of the integer x
FromInt(x) == Factorisation[x]

\* a * b
Times(a, b) == Listed([i \in 1..Len(PrimeSeq) |-> a[i] + b[i]])

\* a / b
DividedBy(a, b) == Listed([i \in 1..Len(PrimeSeq) |-> a[i] - b[i]])

\* math.log(q)
MathLog(q) == [lnOf |-> q]

\* x + y of two logarithms
LogPlus(x, y) == [lnOf |-> Times(x.lnOf, y.lnOf)]

\* the int 0 a Counter starts a missing key from, as a logarithm
LogZero == MathLog(FromInt(1))

RECURSIVE LnUnitsFrom(_, _)
LnUnitsFrom(q, i) ==
  IF i > Len(PrimeSeq) THEN 0 ELSE q[i] * LnPrime[i] + LnUnitsFrom(q, i + 1)

\* ln(q) in units of 10^-5, to within a unit per factor
LnUnits(x) == LnUnitsFrom(x.lnOf, 1)

\* x > y of two logarithms: equal logarithms have equal factorisations
LogGreater(x, y) == x /= y /\ LnUnits(x) > LnUnits(y)

\* x + y of two scores: the POS scorer's are ints, the PMI scorer's logarithms
Plus(kind, x, y) == IF kind = "int" THEN x + y ELSE LogPlus(x, y)

\* x > y of two scores
Greater(kind, x, y) == IF kind = "int" THEN x > y ELSE LogGreater(x, y)

\* the int 0 as a score
Zero(kind) == IF kind = "int" THEN 0 ELSE LogZero

(***************************************************************************)
(* collections.Counter: a dict, kept as the sequence of its items in       *)
(* insertion order.                                                        *)
(***************************************************************************)
\* Counter()
FreshCounter == <<>>

HasKey(c, key) == \E i \in 1..Len(c) : c[i].topic = key

\* c[key] of a Counter of ints: 0 for a missing key
CountOf(c, key) ==
  IF HasKey(c, key) THEN c[CHOOSE i \in 1..Len(c) : c[i].topic = key].score ELSE 0

\* CounterUpdate as dict.update: the new value replaces the old one
CounterUpdateReplacing(c, key, delta, kind) ==
  IF HasKey(c, key)
    THEN Listed([i \in 1..Len(c) |->
                   IF c[i].topic = key THEN [c[i] EXCEPT !.score = delta] ELSE c[i]])
    ELSE Append(c, [topic |-> key, score |-> delta])

\* c.update({key: delta}): self[key] = delta + self.get(key, 0); a new key goes last
CounterUpdate(c, key, delta, kind) ==
  IF HasKey(c, key)
    THEN Listed([i \in 1..Len(c) |->
                   IF c[i].topic = key
                     THEN [c[i] EXCEPT !.score = Plus(kind, delta, c[i].score)]
                     ELSE c[i]])
    ELSE Append(c, [topic |-> key, score |-> Plus(kind, delta, Zero(kind))])

RECURSIVE InsertDesc(_, _, _)
\* InsertDesc putting item before the items that equal it
InsertDescBeforeEqual(sorted, item, kind) ==
  IF sorted = <<>> THEN <<item>>
  ELSE IF ~Greater(kind, Head(sorted).score, item.score) THEN <<item>> \o sorted
  ELSE <<Head(sorted)>> \o InsertDesc(Tail(sorted), item, kind)

\* item put into the descending sequence sorted, after every item not below it
InsertDesc(sorted, item, kind) ==
  IF sorted = <<>> THEN <<item>>
  ELSE IF Greater(kind, item.score, Head(sorted).score) THEN <<item>> \o sorted
  ELSE <<Head(sorted)>> \o InsertDesc(Tail(sorted), item, kind)

RECURSIVE SortedFrom(_, _, _, _)
SortedFrom(items, k, acc, kind) ==
  IF k > Len(items) THEN acc
  ELSE SortedFrom(items, k + 1, InsertDesc(acc, items[k], kind), kind)

\* sorted(c.items(), key=itemgetter(1), reverse=True): a stable sort
SortedDesc(c, kind) == SortedFrom(c, 1, <<>>, kind)

\* heapq.nlargest(k, c.items(), key=itemgetter(1))
NLargest(k, c, kind) ==
  IF k <= 0 THEN <<>>
  ELSE IF k >= Len(c) THEN SortedDesc(c, kind)
  ELSE SubSeq(SortedDesc(c, kind), 1, k)

\* Counter.most_common(num): num is <<>> for None
most_common(c, num, kind) ==
  IF num = <<>> THEN SortedDesc(c, kind) ELSE NLargest(num[1], c, kind)

\* the truth value of an optional int: None and 0 are false
Truthy(num) == num /= <<>> /\ num[1] /= 0

(***************************************************************************)
(* pim_based_topics.                                                       *)
(***************************************************************************)
\* counts[-1] of lines 192-196: the entries of ngrams equal to value
JointCount(ngrams, value) ==
  Cardinality({j \in 1..Len(ngrams) : ngrams[j] = value})

\* counts[i] of lines 197-199 (i from 1): the entries that agree with value at i
MarginalCount(ngrams, value, i) ==
  Cardinality({j \in 1..Len(ngrams) :
                 i <= Len(ngrams[j]) /\ ngrams[j][i] = value[i]})

\* value[i] of line 198 is out of range for an entry v longer than value
IndexErrorAt(ngrams, value) ==
  \E j \in 1..Len(ngrams) : Len(ngrams[j]) > Len(value)

RECURSIVE POther(_, _, _, _)
\* the loop of lines 202-204 from position i on: p_other = p_other * c / total
POther(ngrams, value, i, p_other) ==
  IF i > Len(value) THEN p_other
  ELSE POther(ngrams, value, i + 1,
              DividedBy(Times(p_other, FromInt(MarginalCount(ngrams, value, i))),
                        FromInt(Len(ngrams))))

\* pmi of lines 201-205
Pmi(ngrams, value) ==
  LET total == Len(ngrams)
      p_all == DividedBy(FromInt(JointCount(ngrams, value)), FromInt(total))
      p_other == POther(ngrams, value, 1, FromInt(1))
  IN  MathLog(DividedBy(p_all, p_other))

\* PassesThreshold as count >= 2
PassesThresholdFromTwo(count) == count >= 2

\* the threshold of line 200
PassesThreshold(count) == count > 2

\* one pass of the loop of lines 191-207, for entry k; an IndexError ends the call
PimStep(ngrams, k, st) ==
  IF st.error THEN st
  ELSE IF IndexErrorAt(ngrams, ngrams[k]) THEN [st EXCEPT !.error = TRUE]
  ELSE IF PassesThreshold(JointCount(ngrams, ngrams[k]))
    THEN [st EXCEPT !.counter =
            CounterUpdate(st.counter, Join(ngrams[k], <<" ">>), Pmi(ngrams, ngrams[k]),
                          "log")]
  ELSE st

RECURSIVE PimRange(_, _, _, _)
\* the passes for entries lo..hi in order: the second half starts from the
\* state the first half ends in
PimRange(ngrams, lo, hi, st) ==
  IF lo > hi THEN st
  ELSE IF lo = hi THEN PimStep(ngrams, lo, st)
  ELSE The({PimRange(ngrams, (lo + hi) \div 2 + 1, hi, half) :
              half \in {PimRange(ngrams, lo, (lo + hi) \div 2, st)}})

\* the loop of lines 191-207 over the whole list, from the counter ctr
PimLoop(ngrams, ctr) ==
  PimRange(ngrams, 1, Len(ngrams), [error |-> FALSE, counter |-> ctr])

\* lines 208-211
PimReturn(ctr, num) ==
  IF Truthy(num) THEN most_common(ctr, num, "log") ELSE most_common(ctr, <<>>, "log")

(***************************************************************************)
(* pos_based_topics.                                                       *)
(***************************************************************************)
RECURSIVE CountRange(_, _, _, _)
\* Counter(ngrams) (lines 238, 247) over entries lo..hi in order
CountRange(ngrams, lo, hi, ctr) ==
  IF lo > hi THEN ctr
  ELSE IF lo = hi THEN CounterUpdate(ctr, ngrams[lo], 1, "int")
  ELSE The({CountRange(ngrams, (lo + hi) \div 2 + 1, hi, half) :
              half \in {CountRange(ngrams, lo, (lo + hi) \div 2, ctr)}})

\* Counter(ngrams)
CountAll(ngrams) == CountRange(ngrams, 1, Len(ngrams), FreshCounter)

\* the test of line 242
Qualifies3(value) ==
  LET w1 == SplitOn(value, " ")[1]
      w3 == SplitOn(value, " ")[3]
  IN  PosTag(w1)[1] \in {"J", "N"} /\ PosTag(w3)[1] \in {"J", "N"}

\* the test of lines 252-253
Qualifies2(value) ==
  LET w1 == SplitOn(value, " ")[1]
      w2 == SplitOn(value, " ")[2]
  IN  \/ PosTag(w1)[1] \in {"N"} /\ PosTag(w2)[1] \in {"N"}
      \/ PosTag(w1)[1] \in {"J"} /\ PosTag(w2)[1] \in {"N"}

Qualifies(nn, value) == IF nn = 3 THEN Qualifies3(value) ELSE Qualifies2(value)

\* Counter() (lines 239, 249)
FreshCounterFinal == <<>>

\* PosStep adding one per occurrence in place of counter[value]
PosStepAddingOne(nn, ngrams, freq, k, ctr) ==
  IF Qualifies(nn, ngrams[k]) THEN CounterUpdate(ctr, ngrams[k], 1, "int") ELSE ctr

\* one pass of the loops of lines 240-243 and 250-254, for entry k
PosStep(nn, ngrams, freq, k, ctr) ==
  IF Qualifies(nn, ngrams[k])
    THEN CounterUpdate(ctr, ngrams[k], CountOf(freq, ngrams[k]), "int")
    ELSE ctr

RECURSIVE PosRange(_, _, _, _, _, _)
\* the passes for entries lo..hi in order: the second half starts from the
\* counter the first half ends in
PosRange(nn, ngrams, freq, lo, hi, ctr) ==
  IF lo > hi THEN ctr
  ELSE IF lo = hi THEN PosStep(nn, ngrams, freq, lo, ctr)
  ELSE The({PosRange(nn, ngrams, freq, (lo + hi) \div 2 + 1, hi, half) :
              half \in {PosRange(nn, ngrams, freq, lo, (lo + hi) \div 2, ctr)}})

\* the loop over the whole list, from the counter ctr
PosLoop(nn, ngrams, freq, ctr) == PosRange(nn, ngrams, freq, 1, Len(ngrams), ctr)

\* the stages pos_based_topics runs, in the order of lines 236-259
PosSteps(nn) ==
  IF nn = 3 \/ nn = 2
    THEN <<"get_n_grams", "counter", "counter_final", "most_common">>
    ELSE <<"get_n_grams", "raise">>

(***************************************************************************)
(* The state machine: an instance built from a content, then any sequence  *)
(* of scoring calls.                                                       *)
(***************************************************************************)
Contents == UNION {[1..k -> Sentences] : k \in 0..MaxUnits}

NoResult == [kind |-> "none", value |-> <<>>]

NotNormalized == [by |-> "none", value |-> <<>>]

\* __init__
Init ==
  /\ given \in Contents
  /\ content = given
  /\ calls = 0
  /\ op = "none"
  /\ n = 0
  /\ number = <<>>
  /\ steps = <<>>
  /\ list_ngrams = <<>>
  /\ counter = <<>>
  /\ counter_final = <<>>
  /\ result = NoResult
  /\ previous = "none"
  /\ helper_sentence = <<>>
  /\ normalized = NotNormalized

Called(name, nn, num) ==
  /\ calls' = calls + 1
  /\ op' = name
  /\ n' = nn
  /\ number' = num
  /\ previous' = result.kind
  /\ UNCHANGED <<given, content, helper_sentence, normalized>>

\* lines 189-211
pim_based_topics ==
  /\ calls < MaxCalls
  /\ \E nn \in NValues :
      \E ngrams \in {get_n_grams(content, nn)} :
        \E loop \in {PimLoop(ngrams, FreshCounter)} :
          \E num \in Numbers :
            /\ Called("pim", nn, num)
            /\ list_ngrams' = ngrams
            /\ counter' = loop.counter
            /\ counter_final' = <<>>
            /\ steps' = <<"get_n_grams", "counter">>
                          \o (IF loop.error THEN <<"raise">> ELSE <<"most_common">>)
            /\ result' = IF loop.error
                           THEN [kind |-> "IndexError", value |-> <<>>]
                           ELSE [kind |-> "return",
                                 value |-> PimReturn(loop.counter, num)]

\* the space-joined strings of line 236
Joined(grams) == [k \in 1..Len(grams) |-> Join(grams[k], <<" ">>)]

\* the branches of lines 237 and 246
Accepts(nn) == nn = 3 \/ nn = 2

\* lines 236-259
pos_based_topics ==
  /\ calls < MaxCalls
  /\ \E nn \in NValues :
      \E grams \in {get_n_grams(content, nn)} :
        \E freq \in {IF Accepts(nn) THEN CountAll(Joined(grams)) ELSE <<>>} :
          \E final \in {IF Accepts(nn)
                          THEN PosLoop(nn, Joined(grams), freq, FreshCounterFinal)
                          ELSE <<>>} :
            \E num \in Numbers :
              /\ Called("pos", nn, num)
              /\ list_ngrams' = grams
              /\ counter' = freq
              /\ counter_final' = final
              /\ steps' = PosSteps(nn)
              /\ result' = IF Accepts(nn)
                             THEN [kind |-> "return",
                                   value |-> most_common(final, num, "int")]
                             ELSE [kind |-> "ValueError", value |-> <<>>]

Next ==
  \/ pim_based_topics
  \/ pos_based_topics

Spec == Init /\ [][Next]_vars

(***************************************************************************)
(* The two text helpers on their own: one call of _handle_punctuation or   *)
(* of _handle_period on a sentence, on an instance that is not scored.     *)
(***************************************************************************)
\* the strings over alphabet of at most len characters
Strings(alphabet, len) == UNION {[1..k -> alphabet] : k \in 0..len}

\* a letter, the apostrophe, a digit, the slash, the question mark, two
\* characters of the punctuation regex, a space and a tab
StripAlphabet == {"a", "'", "1", "/", "?", "-", ".", " ", "\t"}

\* two uppercase letters, the period and a space
PeriodAlphabet == {"A", "B", ".", " "}

\* the sentences the helpers are called with
HelperSentences ==
  Strings(StripAlphabet, MaxStripLen) \cup Strings(PeriodAlphabet, MaxPeriodLen)

HelperInit ==
  /\ helper_sentence \in HelperSentences
  /\ normalized = NotNormalized
  /\ given = <<>>
  /\ content = given
  /\ calls = 0
  /\ op = "none"
  /\ n = 0
  /\ number = <<>>
  /\ steps = <<>>
  /\ list_ngrams = <<>>
  /\ counter = <<>>
  /\ counter_final = <<>>
  /\ result = NoResult
  /\ previous = "none"

\* a call name(helper_sentence) that returns value
Helped(name, value) ==
  /\ normalized.by = "none"
  /\ normalized' = [by |-> name, value |-> value]
  /\ UNCHANGED <<given, content, calls, op, n, number, steps, list_ngrams, counter,
                 counter_final, result, previous, helper_sentence>>

\* self._handle_punctuation(helper_sentence)
call_handle_punctuation == Helped("handle_punctuation", handle_punctuation(helper_sentence))

\* self._handle_period(helper_sentence)
call_handle_period == Helped("handle_period", handle_period(helper_sentence))

HelperNext ==
  \/ call_handle_punctuation
  \/ call_handle_period

HelperSpec == HelperInit /\ [][HelperNext]_vars

(***************************************************************************)
(* pos_based_topics and the order of its stages.                           *)
(***************************************************************************)
\* C1: for every n outside {2,3}, pos_based_topics raises ValueError before
\* any step of the call has run: when it raises, no n-gram list, frequency
\* table or accumulator has been built.
C1_RaisesBeforeAnyWork ==
  (op = "pos" /\ n \notin {2, 3}) =>
    /\ result.kind = "ValueError"
    /\ list_ngrams = <<>>
    /\ counter = <<>>
    /\ counter_final = <<>>

(***************************************************************************)
(* The n-gram list.                                                        *)
(***************************************************************************)
\* the filtered token list of every fragment of every unit of the model
FragmentTokenLists ==
  [s \in Sentences |->
     LET sentence_list == UnitFragments(LemmatizeUnit(s))
     IN  [f \in 1..Len(sentence_list) |-> FragmentTokens(sentence_list[f])]]

\* the number of windows the claim gives a fragment of m tokens
WindowCount(m, nn) == IF m > nn THEN m - nn + 1 ELSE 0

\* the windows at start offsets 0..m-n of a token list
WindowsOf(tokens, nn) ==
  [k \in 1..WindowCount(Len(tokens), nn) |-> PySlice(tokens, k - 1, k - 1 + nn)]

\* the concatenation of the windows of all fragments of all units, in order
AllWindows(total_content, nn) ==
  Flatten([u \in 1..Len(total_content) |->
    Flatten([f \in 1..Len(FragmentTokenLists[total_content[u]]) |->
      WindowsOf(FragmentTokenLists[total_content[u]][f], nn)])])

\* C2: a fragment of m filtered tokens contributes m-n+1 windows (offsets
\* 0..m-n) when m > n and none when m <= n, m = n included, and the list is
\* the concatenation of these windows over all fragments of all units, in
\* order, repeated windows kept.
C2_WindowCounts == op /= "none" => list_ngrams = AllWindows(content, n)

\* a call with n = 2 on a content with a fragment of exactly two tokens, which
\* adds nothing, and a fragment whose windows repeat
C2_Witness ==
  /\ op /= "none" /\ n = 2
  /\ \E u \in 1..Len(content) :
       \E f \in 1..Len(FragmentTokenLists[content[u]]) :
         Len(FragmentTokenLists[content[u]][f]) = n
  /\ \E i, j \in 1..Len(list_ngrams) : i < j /\ list_ngrams[i] = list_ngrams[j]

\* whether gram is the run of nn adjacent tokens of tokens that starts at some
\* offset
IsRunOf(gram, tokens, nn) ==
  \E o \in 0..(Len(tokens) - nn) :
    gram = [k \in 1..nn |-> tokens[o + k]]

\* whether gram is a run of nn adjacent tokens of one fragment of one unit
InOneFragment(gram, total_content, nn) ==
  \E u \in 1..Len(total_content) :
    \E f \in 1..Len(FragmentTokenLists[total_content[u]]) :
      IsRunOf(gram, FragmentTokenLists[total_content[u]][f], nn)

\* every entry of the list has n tokens, adjacent and in order in one
\* fragment of one unit
RunsOfOneFragment ==
  \A i \in 1..Len(list_ngrams) :
    /\ Len(list_ngrams[i]) = n
    /\ InOneFragment(list_ngrams[i], content, n)

\* C3 as stated: for all values of n, every emitted n-gram has length exactly
\* n and is a run of n adjacent tokens of one single fragment.
C3_EveryNGramHasLengthN == op /= "none" => RunsOfOneFragment

\* C3: for every n >= 0, every emitted n-gram has length exactly n and is a
\* run of n adjacent tokens, in their original order, of the filtered token
\* sequence of one single fragment of one unit.
C3_LengthNForNonNegativeN == (op /= "none" /\ n >= 0) => RunsOfOneFragment

\* a call with n = 2 that emits n-grams from a content with a unit of several
\* fragments that hold tokens
C3_Witness ==
  /\ op /= "none" /\ n = 2 /\ list_ngrams /= <<>>
  /\ \E u \in 1..Len(content) :
       \E f, g \in 1..Len(FragmentTokenLists[content[u]]) :
         /\ f < g
         /\ FragmentTokenLists[content[u]][f] /= <<>>
         /\ FragmentTokenLists[content[u]][g] /= <<>>

(***************************************************************************)
(* pim_based_topics.                                                       *)
(***************************************************************************)
\* the topic string of an n-gram
TopicOf(gram) == Join(gram, <<" ">>)

\* the number of entries of the list whose topic string is topic
Occurrences(topic) ==
  Cardinality({k \in 1..Len(list_ngrams) : TopicOf(list_ngrams[k]) = topic})

\* the pim call returned
PimReturned == op = "pim" /\ result.kind = "return"

\* C4: no topic whose n-gram occurs 2 times or fewer in the list is in the
\* output of pim_based_topics, for any n and any number; when no n-gram occurs
\* more than twice the output is empty.
C4_RareTopicsExcluded ==
  PimReturned =>
    /\ \A i \in 1..Len(result.value) : Occurrences(result.value[i].topic) > 2
    /\ (\A k \in 1..Len(list_ngrams) : Occurrences(TopicOf(list_ngrams[k])) <= 2)
         => result.value = <<>>

\* a pim call that returns a topic and leaves out an n-gram that occurs twice
C4_Witness ==
  /\ PimReturned /\ result.value /= <<>>
  /\ \E k \in 1..Len(list_ngrams) :
       /\ Occurrences(TopicOf(list_ngrams[k])) = 2
       /\ \A i \in 1..Len(result.value) :
            result.value[i].topic /= TopicOf(list_ngrams[k])

\* joint: the entries of the list equal to gram
Joint(gram) == Cardinality({k \in 1..Len(list_ngrams) : list_ngrams[k] = gram})

\* marginal_i: the entries of the list whose token at position i is gram's
Marginal(gram, i) ==
  Cardinality({k \in 1..Len(list_ngrams) :
                 i <= Len(list_ngrams[k]) /\ list_ngrams[k][i] = gram[i]})

RECURSIVE MarginalProduct(_, _)
\* the product over the positions i..Len(gram) of marginal_i / total
MarginalProduct(gram, i) ==
  IF i > Len(gram) THEN FromInt(1)
  ELSE Times(DividedBy(FromInt(Marginal(gram, i)), FromInt(Len(list_ngrams))),
             MarginalProduct(gram, i + 1))

\* count x ln(q) = ln(q^count)
ScaledLog(count, q) == [lnOf |-> [i \in 1..Len(PrimeSeq) |-> count * q[i]]]

\* occurrence_count x ln((joint/total) / product of (marginal_i/total))
AmplifiedPmi(gram) ==
  ScaledLog(Joint(gram),
            DividedBy(DividedBy(FromInt(Joint(gram)), FromInt(Len(list_ngrams))),
                      MarginalProduct(gram, 1)))

\* C5: the score of every topic pim_based_topics returns is its occurrence
\* count times pmi = ln((joint/total) / product over the positions of
\* (marginal_i/total)), total being the length of the list.
C5_ScoreIsCountTimesPmi ==
  PimReturned =>
    \A i \in 1..Len(result.value) :
      \E k \in 1..Len(list_ngrams) :
        /\ TopicOf(list_ngrams[k]) = result.value[i].topic
        /\ result.value[i].score = AmplifiedPmi(list_ngrams[k])

\* a pim call that returns a bigram whose pmi is not zero
C5_Witness ==
  /\ PimReturned /\ n = 2
  /\ \E i \in 1..Len(result.value) :
       /\ Occurrences(result.value[i].topic) >= 3
       /\ result.value[i].score /= LogZero

(***************************************************************************)
(* pos_based_topics.                                                       *)
(***************************************************************************)
\* the pos call returned
PosReturned == op = "pos" /\ result.kind = "return"

IsNoun(word) == PosTag(word)[1] = "N"

IsAdjective(word) == PosTag(word)[1] = "J"

\* the pattern of the claim for the topic strings of n = 2 and n = 3
MatchesPattern(nn, topic) ==
  LET words == SplitOn(topic, " ")
  IN  IF nn = 2
        THEN /\ IsNoun(words[1]) \/ IsAdjective(words[1])
             /\ IsNoun(words[2])
        ELSE /\ IsNoun(words[1]) \/ IsAdjective(words[1])
             /\ IsNoun(words[3]) \/ IsAdjective(words[3])

\* C6: for n in {2,3}, every topic pos_based_topics returns has the square of
\* the number of its occurrences in the list as score and qualifies under
\* the pattern for n.
C6_ScoreIsCountSquared ==
  PosReturned =>
    \A i \in 1..Len(result.value) :
      /\ result.value[i].score
           = Occurrences(result.value[i].topic) * Occurrences(result.value[i].topic)
      /\ MatchesPattern(n, result.value[i].topic)

\* a pos call that returns a topic that occurs more than once and leaves out
\* an n-gram of the list that does not qualify
C6_Witness ==
  /\ PosReturned
  /\ \E i \in 1..Len(result.value) : Occurrences(result.value[i].topic) > 1
  /\ \E k \in 1..Len(list_ngrams) :
       /\ ~MatchesPattern(n, TopicOf(list_ngrams[k]))
       /\ \A i \in 1..Len(result.value) :
            result.value[i].topic /= TopicOf(list_ngrams[k])

(***************************************************************************)
(* The top of the ranking.                                                 *)
(***************************************************************************)
\* the scores of the last call: logarithms for pim, ints for pos
ScoreKind == IF op = "pim" THEN "log" ELSE "int"

\* no score of the result is above the one before it
NonIncreasing ==
  \A i \in 1..(Len(result.value) - 1) :
    ~Greater(ScoreKind, result.value[i + 1].score, result.value[i].score)

\* C7, for the numbers a length can stay under: for both scorers and every
\* number that is given, 0 included, the result has at most number entries
\* and its scores are non-increasing; pim_based_topics returns an unbounded
\* sequence only when number is not given.
C7_AtMostNumber ==
  (result.kind = "return" /\ number /= <<>> /\ number[1] >= 0) =>
    /\ Len(result.value) <= number[1]
    /\ NonIncreasing

\* the index of the first entry of the list whose topic string is topic
FirstIndex(topic) ==
  CHOOSE k \in 1..Len(list_ngrams) :
    /\ TopicOf(list_ngrams[k]) = topic
    /\ \A j \in 1..(k - 1) : TopicOf(list_ngrams[j]) /= topic

\* the topics of the list the scorer of the last call keeps
QualifyingTopics ==
  {TopicOf(list_ngrams[k]) : k \in
     {j \in 1..Len(list_ngrams) :
        IF op = "pim" THEN Occurrences(TopicOf(list_ngrams[j])) > 2
                      ELSE MatchesPattern(n, TopicOf(list_ngrams[j]))}}

\* C8: in the output of both scorers, topics with equal scores come in the
\* order in which their strings were first met in the list, and a number
\* above the number of qualifying topics returns all of them.
C8_TiesInFirstInsertionOrder ==
  result.kind = "return" =>
    /\ \A i, j \in 1..Len(result.value) :
         (i < j /\ result.value[i].score = result.value[j].score)
           => FirstIndex(result.value[i].topic) < FirstIndex(result.value[j].topic)
    /\ (number /= <<>> /\ number[1] > Cardinality(QualifyingTopics))
         => {result.value[i].topic : i \in 1..Len(result.value)} = QualifyingTopics

\* a call with number = 3 that returns its two qualifying topics, equal in
\* score, "fox big" before "big fox"
C8_Witness ==
  /\ result.kind = "return" /\ number = <<3>>
  /\ Len(result.value) = 2
  /\ result.value[1].score = result.value[2].score
  /\ result.value[1].topic = <<"f", "o", "x", " ", "b", "i", "g">>
  /\ result.value[2].topic = <<"b", "i", "g", " ", "f", "o", "x">>

(***************************************************************************)
(* Acronyms in the pipeline.                                               *)
(***************************************************************************)
\* the token lists of the fragments of a unit that hold a token
TokenFragments(unit) ==
  SelectSeq(FragmentTokenLists[unit], LAMBDA tokens : tokens /= <<>>)

\* C9: an acronym written as uppercase letters each followed by a period is
\* collapsed into one token before the split on periods and does not break
\* its unit into fragments: "He has an M.B.A. degree." is the single fragment
\* "he have a mba degree", whose unigrams are "have", "mba" and "degree".
C9_AcronymCollapsedBeforeSplit ==
  (op /= "none" /\ n = 1 /\ content = <<SentenceMba>>) =>
    /\ Len(TokenFragments(SentenceMba)) = 1
    /\ list_ngrams = << <<<<"h", "a", "v", "e">>>>, <<<<"m", "b", "a">>>>,
                        <<<<"d", "e", "g", "r", "e", "e">>>> >>

(***************************************************************************)
(* Calls on one instance.                                                  *)
(***************************************************************************)
\* what the call name(nn, num) returns or raises when it is the first call on
\* a fresh instance built from the content given
FirstCallResult(name, nn, num) ==
  IF name = "pim"
    THEN LET loop == PimLoop(AllWindows(given, nn), <<>>)
         IN  IF loop.error THEN [kind |-> "IndexError", value |-> <<>>]
             ELSE [kind |-> "return", value |-> PimReturn(loop.counter, num)]
  ELSE IF nn = 2 \/ nn = 3
    THEN LET ngrams == Joined(AllWindows(given, nn))
         IN  [kind |-> "return",
              value |-> most_common(PosLoop(nn, ngrams, CountAll(ngrams), <<>>),
                                    num, "int")]
  ELSE [kind |-> "ValueError", value |-> <<>>]

\* C10: over any sequence of calls on one instance the stored content is
\* never modified and nothing persists between calls: each call builds its
\* list from the content alone and returns what the same call returns as the
\* first call on a fresh instance of the same content.
C10_NothingPersists ==
  /\ content = given
  /\ op /= "none" =>
       /\ list_ngrams = AllWindows(given, n)
       /\ result = FirstCallResult(op, n, number)

\* a second call that returns topics after a call that raised
C10_Witness ==
  /\ calls = 2
  /\ previous \in {"ValueError", "IndexError"}
  /\ result.kind = "return" /\ result.value /= <<>>

(***************************************************************************)
(* The text helpers.                                                       *)
(***************************************************************************)
\* the punctuation set of the claim
ListedPunctuation ==
  {"!", "@", "#", "$", "%", "*", "(", ")", "_", "+", "-", "=", "[", "]", "{", "}",
   "|", "\\", ":", ";", "\"", ",", "<", ">", "."}

\* sentence with a space for every character of the listed set, every run of
\* whitespace made one space, and no whitespace at either end
StrippedAsListed(s) ==
  Join(SplitWhitespace([i \in 1..Len(s) |->
                          IF s[i] \in ListedPunctuation THEN " " ELSE s[i]]),
       <<" ">>)

\* C11: _handle_punctuation replaces exactly the characters of the set
\* ! @ # $ % * ( ) _ + - = [ ] { } | \ : ; " , < > . with a space and leaves
\* every other character, the apostrophe included, as it is; it then makes
\* every run of whitespace one space and trims the result.
C11_StripsListedSetAndTrims ==
  normalized.by = "handle_punctuation" =>
    normalized.value = StrippedAsListed(helper_sentence)

RECURSIVE WithoutRunPeriodsFrom(_, _)
\* s from index i on, without the periods that follow an uppercase letter:
\* these are the periods of the runs of (uppercase letter, period)
WithoutRunPeriodsFrom(s, i) ==
  IF i > Len(s) THEN <<>>
  ELSE IF s[i] = "." /\ i > 1 /\ s[i - 1] \in Upper
    THEN WithoutRunPeriodsFrom(s, i + 1)
  ELSE <<s[i]>> \o WithoutRunPeriodsFrom(s, i + 1)

\* C12: for every sentence, _handle_period removes the periods of every
\* maximal run of (uppercase letter, period), each run in place, and leaves
\* every other period untouched, also with several runs and when the text
\* of one run occurs inside another run.
C12_EveryRunCollapsedInPlace ==
  normalized.by = "handle_period" =>
    normalized.value = WithoutRunPeriodsFrom(helper_sentence, 1)

====
